---- MODULE Spec2Model ----
(***************************************************************************)
(* Model of the conversation engine of chatgpt-autopilot:                  *)
(* modules/chatgpt.py, send_message with its helpers redact_always,        *)
(* redact_messages, filter_messages, save_message_history and the nested   *)
(* process_tool_calls.                                                     *)
(*                                                                         *)
(* A message is a record with the fields role, content, name,              *)
(* tool_call_id and tool_calls.  A key that is absent in the Python dict   *)
(* is the empty string (name, tool_call_id) or the empty sequence          *)
(* (tool_calls: the key is only ever set to a non-empty list, line 211).   *)
(* A content is a sequence of text fragments, so that "x in content" and   *)
(* "content starts with" are computed and not assumed; Python's None is    *)
(* the one-fragment content PyNone.  The field obj tells which elements of  *)
(* one list are the same dict object: 0 is a dict that occurs once, equal  *)
(* non-zero values are one dict that the list holds several times (the     *)
(* retry path appends the same `message` again), and 1 is the dict passed  *)
(* as `message` to the current call.                                       *)
(***************************************************************************)
EXTENDS Integers, Sequences, FiniteSets, TLC

VARIABLES
    pc,                 \* position of the caller / of send_message
    orig,               \* the list object the caller passed as `messages`
    messages,           \* the list the local name `messages` is bound to
    aliased,            \* TRUE while `messages` is still the caller's object
    message,            \* the user message of the current call
    function_call,      \* parameter function_call of the current activation
    retries,            \* parameter retries of the current activation
    clarification_asked,\* gpt_functions.clarification_asked
    outline_created,    \* gpt_functions.outline_created
    create_outline,     \* module global create_outline
    cfg,                \* cmd_args.args and the gpt_functions flags read only
    history,            \* content of history/<conv_id>.json
    request,            \* arguments of the last client.chat.completions.create
    requests,           \* network requests issued by the current call
    adds,               \* total_tokens of each tokens.add of the current call
    response,           \* the last response of the remote API
    pre,                \* the caller's transcript when the call started
    raises,             \* calls of the session that raised
    dispatched,         \* tool calls dispatched by the current call, in order
    attempts,           \* what each request of the current call carried
    outline_prompts,    \* outline prompts appended in the session
    arg,                \* argument of the pure function under test
    out,                \* its result
    op,                 \* which pure function was applied
    arg_after,          \* the argument object after the call
    received            \* the arguments each tool was invoked with

vars == <<pc, orig, messages, aliased, message, function_call, retries,
          clarification_asked, outline_created, create_outline, cfg, history,
          request, requests, adds, response, pre, raises, dispatched,
          attempts, outline_prompts, arg, out, op, arg_after, received>>

turnVars == <<pc, orig, messages, aliased, message, function_call, retries,
              clarification_asked, outline_created, create_outline, cfg,
              history, request, requests, adds, response, pre, raises,
              dispatched, attempts, outline_prompts>>

pureVars == <<arg, out, op, arg_after, received>>

----------------------------------------------------------------------------
(* Bounds *)

MaxTranscript == 3  \* a call is made while the transcript is at most this long
MaxRaises == 1      \* calls are made while at most this many calls have raised
MaxCalls == 2       \* tool calls in one assistant message
MaxLen == 3         \* length of the transcripts given to the pure functions

(* Program constants *)

RetryBudget == 4    \* `if retries >= 4: raise e`

----------------------------------------------------------------------------
(* Text *)

PyNone == <<"None">>

MessageRedacted == <<"<message redacted>">>
FileContentsRedacted == <<"<file contents redacted>">>
FileContentRedacted == <<"<file content redacted>">>
FileAppended == <<"File appended successfully">>
OutlinePrompt == <<"Please tell me in full detail how you will implement this project.">>
ErrorPrefix == <<"Error: ">>

\* Python's `needle in content` for a needle that is one fragment
Contains(content, needle) == \E i \in 1..Len(content) : content[i] = needle

StartsWith(content, prefix) ==
    /\ Len(content) >= Len(prefix)
    /\ SubSeq(content, 1, Len(prefix)) = prefix

----------------------------------------------------------------------------
(* Messages *)

Msg(role, content) ==
    [role |-> role, content |-> content, name |-> "", tool_call_id |-> "",
     tool_calls |-> <<>>, obj |-> 0]

UserMsg(content) == Msg("user", content)

ToolMsg(id, name, content) ==
    [role |-> "tool", content |-> content, name |-> name, tool_call_id |-> id,
     tool_calls |-> <<>>, obj |-> 0]

\* a tool result in the older message format that redact_messages tests for
FunctionMsg(name, content) ==
    [role |-> "function", content |-> content, name |-> name,
     tool_call_id |-> "", tool_calls |-> <<>>, obj |-> 0]

\* `"tool_calls" in msg`
HasToolCalls(msg) == msg.tool_calls # <<>>

----------------------------------------------------------------------------
(* redact_always, redact_messages, filter_messages *)

\* the positions of ms that hold the dict object at position i
SameObject(ms, i) ==
    {j \in 1..Len(ms) : j = i \/ (ms[i].obj # 0 /\ ms[j].obj = ms[i].obj)}

FirstOf(S) == CHOOSE i \in S : \A j \in S : i <= j

\* ms[i]["content"] = content
SetContent(ms, i, content) ==
    [j \in 1..Len(ms) |->
        IF j \in SameObject(ms, i) THEN [ms[j] EXCEPT !.content = content]
        ELSE ms[j]]

\* copy.deepcopy of a list of dicts: new dicts, the sharing inside the list
\* kept; a dict that occurs once is 0, shared ones are numbered from 2 in
\* the order of their first occurrence
deepcopy(ms) ==
    LET shared(i) == Cardinality(SameObject(ms, i)) >= 2
        firsts == {FirstOf(SameObject(ms, i)) : i \in {k \in 1..Len(ms) : shared(k)}}
        rank(i) == Cardinality({f \in firsts : f <= FirstOf(SameObject(ms, i))})
    IN  [i \in 1..Len(ms) |->
            [ms[i] EXCEPT !.obj = IF shared(i) THEN 1 + rank(i) ELSE 0]]

\* the first of the indices S for which the loop body's test holds, 0: none
FirstMatch(S) == IF S = {} THEN 0 ELSE FirstOf(S)

\* test of line 29
AppendOk(msg) == msg.role = "user" /\ Contains(msg.content, "APPEND_OK")

redact_always(ms) ==
    LET messages_redact == deepcopy(ms)
        i == FirstMatch({k \in 1..Len(ms) : AppendOk(messages_redact[k])})
    IN  IF i = 0 THEN messages_redact
        ELSE SetContent(messages_redact, i, FileAppended)

\* first test of the loop body (line 38)
RedactableAssistant(msg) ==
    /\ msg.role = "assistant"
    /\ msg.content \notin {PyNone, MessageRedacted}

\* second test of the loop body (line 41)
RedactableFile(msg) ==
    /\ msg.role = "function"
    /\ msg.name = "read_file"
    /\ msg.content \notin {PyNone, FileContentsRedacted}

\* either test holds: the loop body replaces and breaks
Redactable(msg) == RedactableAssistant(msg) \/ RedactableFile(msg)

\* redact_messages whose first test forgets the role
RedactMessagesAnyRole(ms) ==
    LET messages_redact == deepcopy(ms)
        Unredacted(msg) == msg.content \notin {PyNone, MessageRedacted}
        i == FirstMatch({k \in 1..Len(ms) : Unredacted(messages_redact[k])})
    IN  IF i = 0 THEN messages_redact
        ELSE SetContent(messages_redact, i, MessageRedacted)

redact_messages(ms) ==
    LET messages_redact == deepcopy(ms)
        i == FirstMatch({k \in 1..Len(ms) : Redactable(messages_redact[k])})
    IN  IF i = 0 THEN messages_redact
        ELSE IF RedactableAssistant(messages_redact[i])
        THEN SetContent(messages_redact, i, MessageRedacted)
        ELSE SetContent(messages_redact, i, FileContentsRedacted)

\* ArgumentReached for a working list that holds the argument's own dicts
\* (list(messages) in place of copy.deepcopy(messages))
ArgumentReachedShallow == TRUE

\* whether a write to a dict of messages_redact is a write to a dict of the
\* argument: copy.deepcopy (lines 27 and 36) makes new dicts
ArgumentReached == FALSE

\* the list passed to redact_always or redact_messages, after the call
\* that returned result
ArgumentAfter(ms, result) ==
    IF ArgumentReached
    THEN [i \in 1..Len(ms) |-> [ms[i] EXCEPT !.content = result[i].content]]
    ELSE ms

filter_messages(ms) == SelectSeq(ms, LAMBDA msg : msg.role \notin {"git"})

\* modules.token_saver.save_tokens: the request carries the full history
save_tokens(ms) == ms

----------------------------------------------------------------------------
(* process_tool_calls *)

ArgsGood == "{\"a\": 1}"
ArgsRaising == "{\"a\": 0}"
ArgsUnparsable == "{\"a\": "

ArgsTasksMixed ==
    "{\"tasks\": [{\"file_involved\": \"a.py\", \"task_description\": \"write a\", \"priority\": 1}, \"note\", {\"task_description\": \"test a\"}, 7, {}]}"
ArgsTasksNotes == "{\"tasks\": [\"note\", 7]}"
ArgsTasksNotList == "{\"tasks\": \"later\"}"

\* the values json.loads gives, with their Python type; a dict is a function
\* from its keys, the empty dict the empty function
JInt(n) == [type |-> "int", value |-> n]
JStr(text) == [type |-> "str", value |-> text]
JList(items) == [type |-> "list", value |-> items]
JDict(items) == [type |-> "dict", value |-> items]

\* json.loads: the parsed value (the keyword arguments, by key), or the
\* error it raises
JsonLoads(arguments) ==
    CASE arguments = ArgsUnparsable ->
            [ok |-> FALSE, value |-> <<"Expecting value">>]
      [] arguments = ArgsGood -> [ok |-> TRUE, value |-> [a |-> JInt(1)]]
      [] arguments = ArgsRaising -> [ok |-> TRUE, value |-> [a |-> JInt(0)]]
      [] arguments = ArgsTasksMixed ->
            [ok |-> TRUE, value |->
                [tasks |-> JList(<<
                    JDict([file_involved |-> JStr("a.py"),
                           task_description |-> JStr("write a"),
                           priority |-> JInt(1)]),
                    JStr("note"),
                    JDict([task_description |-> JStr("test a")]),
                    JInt(7),
                    JDict(<<>>) >>)]]
      [] arguments = ArgsTasksNotes ->
            [ok |-> TRUE, value |-> [tasks |-> JList(<<JStr("note"), JInt(7)>>)]]
      [] arguments = ArgsTasksNotList ->
            [ok |-> TRUE, value |-> [tasks |-> JStr("later")]]

\* task.get(key, default)
Get(task, key, default) == IF key \in DOMAIN task THEN task[key] ELSE default

\* lines 86-89
FormattedTask(task) ==
    JDict([file_involved |-> Get(task, "file_involved", JStr("NO_FILE")),
           task_description |-> Get(task, "task_description", JStr(""))])

\* FormatTasks without the isinstance test: an entry that is no dict counts
\* as a dict without keys
RECURSIVE FormatTasksUnfiltered(_)
FormatTasksUnfiltered(tasks) ==
    IF Len(tasks) = 0 THEN <<>>
    ELSE <<FormattedTask(IF Head(tasks).type = "dict" THEN Head(tasks).value
                         ELSE <<>>)>>
            \o FormatTasksUnfiltered(Tail(tasks))

\* lines 83-90: formatted_tasks
RECURSIVE FormatTasks(_)
FormatTasks(tasks) ==
    IF Len(tasks) = 0 THEN <<>>
    ELSE (IF Head(tasks).type = "dict"
          THEN <<FormattedTask(Head(tasks).value)>> ELSE <<>>)
            \o FormatTasks(Tail(tasks))

\* lines 81-91: func_args as line 94 passes them
FormatArguments(func_name, func_args) ==
    IF /\ func_name = "make_tasklist"
       /\ "tasks" \in DOMAIN func_args
       /\ func_args.tasks.type = "list"
    THEN [func_args EXCEPT !.tasks = JList(FormatTasks(func_args.tasks.value))]
    ELSE func_args

\* attributes of modules.gpt_functions that are tools
Registered ==
    {"ask_clarification", "read_file", "write_file", "make_tasklist",
     "task_finished", "project_finished"}

\* func(**func_args): the returned value, or the exception raised
Invoke(func_name, func_args) ==
    IF "a" \in DOMAIN func_args /\ func_args.a = JInt(0)
    THEN [ok |-> FALSE, value |-> <<"bad argument">>]
    ELSE [ok |-> TRUE, value |-> <<"result of ", func_name>>]

\* the call reaches func(**func_args)
Invoked(tool_call) ==
    /\ JsonLoads(tool_call.arguments).ok
    /\ tool_call.name \in Registered

\* a fault: the except branch is taken
Faults(tool_call) ==
    \/ ~Invoked(tool_call)
    \/ ~Invoke(tool_call.name,
               FormatArguments(tool_call.name,
                               JsonLoads(tool_call.arguments).value)).ok

\* ToolResponse with an except branch that does not name the tool
ToolResponseUnnamedError(tool_call) ==
    IF Faults(tool_call)
    THEN ToolMsg(tool_call.id, "", ErrorPrefix \o <<"failed">>)
    ELSE ToolMsg(tool_call.id, tool_call.name, <<"result of ", tool_call.name>>)

\* ToolResponse whose except branch stores str(e) alone
ToolResponseBareError(tool_call) ==
    LET parsed == JsonLoads(tool_call.arguments) IN
    IF ~parsed.ok THEN ToolMsg(tool_call.id, tool_call.name, parsed.value)
    ELSE IF tool_call.name \notin Registered
    THEN ToolMsg(tool_call.id, tool_call.name, <<"module has no attribute ">>)
    ELSE ToolMsg(tool_call.id, tool_call.name,
                 Invoke(tool_call.name, parsed.value).value)

\* one iteration of the loop of process_tool_calls, try and except branch
ToolResponse(tool_call) ==
    LET func_name == tool_call.name
        parsed == JsonLoads(tool_call.arguments)
    IN  IF ~parsed.ok
        THEN ToolMsg(tool_call.id, func_name, ErrorPrefix \o parsed.value)
        ELSE IF func_name \notin Registered
        THEN ToolMsg(tool_call.id, func_name,
                     ErrorPrefix \o <<"module has no attribute ", func_name>>)
        ELSE LET result == Invoke(func_name,
                                  FormatArguments(func_name, parsed.value))
             IN
             IF result.ok
             THEN ToolMsg(tool_call.id, func_name, result.value)
             ELSE ToolMsg(tool_call.id, func_name, ErrorPrefix \o result.value)

\* process_tool_calls without the try: the first fault ends the loop
RECURSIVE ProcessToolCallsUntilFault(_)
ProcessToolCallsUntilFault(tool_calls) ==
    IF tool_calls = <<>> \/ Faults(Head(tool_calls)) THEN <<>>
    ELSE <<ToolResponse(Head(tool_calls))>>
            \o ProcessToolCallsUntilFault(Tail(tool_calls))

RECURSIVE process_tool_calls(_)
process_tool_calls(tool_calls) ==
    IF tool_calls = <<>> THEN <<>>
    ELSE <<ToolResponse(Head(tool_calls))>> \o process_tool_calls(Tail(tool_calls))

\* what line 94 passes to the tool, for the calls that reach it
Received(tool_calls) ==
    [i \in 1..Len(tool_calls) |->
        IF Invoked(tool_calls[i])
        THEN [invoked |-> TRUE, name |-> tool_calls[i].name,
              args |-> FormatArguments(tool_calls[i].name,
                                       JsonLoads(tool_calls[i].arguments).value)]
        ELSE [invoked |-> FALSE, name |-> tool_calls[i].name, args |-> <<>>]]

\* gpt_functions.ask_clarification counts the questions it asked
RECURSIVE ClarificationsAsked(_)
ClarificationsAsked(tool_calls) ==
    IF tool_calls = <<>> THEN 0
    ELSE (IF Invoked(Head(tool_calls)) /\ Head(tool_calls).name = "ask_clarification"
          THEN 1 ELSE 0) + ClarificationsAsked(Tail(tool_calls))

----------------------------------------------------------------------------
(* send_message: tool selection (lines 128-161) *)

\* gpt_functions.get_definitions(model), by name
AllDefinitions ==
    {"read_file", "write_file", "make_tasklist", "task_finished",
     "project_finished"}

\* gpt_functions.ask_clarification_func, by name
ask_clarification_func == "ask_clarification"

\* TaskListDefinitions without the test of lines 138-139
TaskListDefinitionsUnperformed(c) ==
    IF c.active_tasklist
    THEN AllDefinitions \ {"make_tasklist", "project_finished"}
    ELSE AllDefinitions \ {"task_finished"}

\* lines 131-139
TaskListDefinitions(c) ==
    LET d1 == IF c.active_tasklist
              THEN AllDefinitions \ {"make_tasklist", "project_finished"}
              ELSE AllDefinitions \ {"task_finished"}
    IN  IF ~c.task_operation_performed THEN d1 \ {"task_finished"} ELSE d1

\* test of line 142
ClarifyRule(c, asked) ==
    ~c.no_questions /\ asked < c.initial_question_count

\* test of line 148
OutlineRule(c, asked, created) ==
    ~ClarifyRule(c, asked) /\ ~c.no_outline /\ ~created

\* the values of function_call: the strings "auto" and "none" (kind), or the
\* dict of lines 144-147
FcAuto == [kind |-> "auto", name |-> "", arguments |-> ""]
FcNone == [kind |-> "none", name |-> "", arguments |-> ""]
ForcedClarification ==
    [kind |-> "dict", name |-> "ask_clarification", arguments |-> "questions"]

\* lines 141-152: the definitions offered
SelectDefinitions(c, asked, created) ==
    IF ClarifyRule(c, asked) THEN {ask_clarification_func}
    ELSE IF OutlineRule(c, asked, created) THEN {ask_clarification_func}
    ELSE TaskListDefinitions(c)

\* SelectFunctionCall whose first rule leaves function_call as it was
SelectFunctionCallUnforced(c, asked, created, fc) ==
    IF OutlineRule(c, asked, created) THEN FcNone ELSE fc

\* lines 141-152: function_call after the rules
SelectFunctionCall(c, asked, created, fc) ==
    IF ClarifyRule(c, asked) THEN ForcedClarification
    ELSE IF OutlineRule(c, asked, created) THEN FcNone
    ELSE fc

\* lines 141-152: the branch taken, 3 when neither test holds
RuleTaken(c, asked, created) ==
    IF ClarifyRule(c, asked) THEN 1
    ELSE IF OutlineRule(c, asked, created) THEN 2
    ELSE 3

\* lines 175-178: "auto", a forced function, or None
ToolChoice(fc) ==
    IF fc = FcAuto THEN [type |-> "auto", function |-> ""]
    ELSE IF fc # FcNone THEN [type |-> "function", function |-> fc.name]
    ELSE [type |-> "None", function |-> ""]

\* line 161, by name; None is the empty set
Tools(definitions) == definitions

----------------------------------------------------------------------------
(* send_message: lines 113-166, from entry to the network request *)

\* PartialOutput that finds no sentinel
PartialOutputNever(m) == FALSE

\* line 123
PartialOutput(m) == m.content # <<>> /\ Contains(m.content, "No END_OF_FILE_CONTENT")

\* MarkSecondToLast that marks messages[-1]
MarkLast(ms) == SetContent(ms, Len(ms), FileContentRedacted)

\* line 125
MarkSecondToLast(ms) == SetContent(ms, Len(ms) - 1, FileContentRedacted)

\* lines 114-115: the tool calls of the last message, <<>> when it has none
PendingCalls(ms) ==
    IF ms # <<>> /\ HasToolCalls(ms[Len(ms)]) THEN ms[Len(ms)].tool_calls
    ELSE <<>>

\* the synthetic message of lines 154-157
OutlineMsg == UserMsg(OutlinePrompt)

\* how many times ms holds the synthetic message
Synthetic(ms) == Cardinality({i \in 1..Len(ms) : ms[i].content = OutlinePrompt})

\* OutlineCreatedAfter that leaves the flag as it was
OutlineCreatedKept(created, outline) == created

\* gpt_functions.outline_created after lines 141-158; outline: the elif
\* branch was taken
OutlineCreatedAfter(created, outline) == created \/ outline

\* msgs0: the argument `messages`; al0: it is the caller's own list;
\* orig0: the caller's own list; fc0: the argument function_call
\* req0: requests issued so far; disp0: tool calls dispatched so far
\* hist0: the history file at entry; att0: the requests issued so far
Attempt(msgs0, orig0, al0, fc0, req0, disp0, hist0, att0) ==
    LET pending == PendingCalls(msgs0)
        m1 == msgs0 \o process_tool_calls(pending) \o <<message'>>
        asked == clarification_asked + ClarificationsAsked(pending)
        partial == PartialOutput(message')
    IN  /\ clarification_asked' = asked
        /\ dispatched' = disp0 \o pending
        /\ IF partial /\ Len(m1) < 2
           THEN \* messages[-2] raises IndexError, outside the try
                /\ pc' = "raised"
                /\ messages' = m1
                /\ orig' = IF al0 THEN m1 ELSE orig0
                /\ aliased' = al0
                /\ function_call' = fc0
                /\ requests' = req0
                /\ history' = hist0
                /\ raises' = raises + 1
                /\ attempts' = att0
                /\ UNCHANGED <<outline_created, create_outline, request,
                               outline_prompts>>
           ELSE LET m2 == IF partial THEN redact_messages(MarkSecondToLast(m1))
                          ELSE m1
                    o2 == IF ~al0 THEN orig0
                          ELSE IF partial THEN MarkSecondToLast(m1) ELSE m1
                    al2 == al0 /\ ~partial
                    outline == OutlineRule(cfg, asked, outline_created)
                    extra == outline /\ ~cfg.modify_outline
                    m3 == IF extra THEN Append(m2, OutlineMsg) ELSE m2
                    fc == SelectFunctionCall(cfg, asked, outline_created, fc0)
                    tools == Tools(SelectDefinitions(cfg, asked, outline_created))
                IN  /\ pc' = "request"
                    /\ messages' = m3
                    /\ orig' = IF al2 THEN messages' ELSE o2
                    /\ aliased' = al2
                    /\ function_call' = fc
                    /\ create_outline' = (create_outline \/ outline)
                    /\ outline_created' = OutlineCreatedAfter(outline_created, outline)
                    /\ outline_prompts' = outline_prompts + (IF extra THEN 1 ELSE 0)
                    /\ history' = messages'
                    /\ request' = [messages |-> save_tokens(filter_messages(messages')),
                                   tools |-> tools,
                                   tool_choice |-> ToolChoice(function_call')]
                    /\ requests' = req0 + 1
                    /\ attempts' = Append(att0,
                          [rule |-> RuleTaken(cfg, asked, outline_created),
                           tools |-> request'.tools,
                           tool_choice |-> request'.tool_choice,
                           synthetic |-> Synthetic(request'.messages)])
                    /\ raises' = raises

----------------------------------------------------------------------------
(* Inputs: user messages, responses of the remote API, configurations *)

UserContents == {<<"hi">>, <<"APPEND_OK">>, <<"No END_OF_FILE_CONTENT">>}

CallIds == <<"call_a", "call_b", "call_c", "call_d">>

\* function name and argument text of a tool call: one that succeeds, and
\* the three faults (the tool raises, unparsable arguments, unknown tool)
CallKinds ==
    << [name |-> "ask_clarification", arguments |-> ArgsGood],
       [name |-> "read_file", arguments |-> ArgsRaising],
       [name |-> "read_file", arguments |-> ArgsUnparsable],
       [name |-> "no_such_tool", arguments |-> ArgsGood] >>

ToolCall(id, kind) ==
    [id |-> id, name |-> kind.name, arguments |-> kind.arguments]

\* the batch of n calls that starts with kind k and goes on in cyclic order;
\* the i-th call has the i-th id
Batch(k, n) ==
    [i \in 1..n |->
        ToolCall(CallIds[i], CallKinds[((k + i - 2) % Len(CallKinds)) + 1])]

\* the tool calls of a response: MaxCalls calls, so that every kind is
\* followed by a call that must still be answered
Batches == { Batch(k, MaxCalls) : k \in 1..Len(CallKinds) }

Usage(prompt, completion) ==
    [present |-> TRUE, prompt_tokens |-> prompt, completion_tokens |-> completion,
     total_tokens |-> prompt + completion]

NoUsage ==
    [present |-> FALSE, prompt_tokens |-> 0, completion_tokens |-> 0,
     total_tokens |-> 0]

\* response.usage, message_obj.content, message_obj.tool_calls
Responses ==
    { [usage |-> u, content |-> <<"I will">>, tool_calls |-> <<>>] :
        u \in {NoUsage, Usage(3, 2)} }
    \cup
    { [usage |-> Usage(3, 2), content |-> PyNone, tool_calls |-> b] :
        b \in Batches }

\* cmd_args.args and the flags of gpt_functions that send_message only reads;
\* modify_outline is read only by the outline rule
Configs ==
    { c \in [no_questions : BOOLEAN, no_outline : BOOLEAN,
             modify_outline : BOOLEAN, active_tasklist : BOOLEAN,
             task_operation_performed : BOOLEAN,
             initial_question_count : {1}] :
        c.modify_outline => ~c.no_outline }

AssistantCalls(tool_calls) ==
    [role |-> "assistant", content |-> <<>>, name |-> "", tool_call_id |-> "",
     tool_calls |-> tool_calls, obj |-> 0]

\* the transcript the session starts with: empty, one that was saved with
\* the tool calls of its last message unanswered, or one that ends in a file
\* read in the older message format
InitTranscripts ==
    { <<>>,
      << UserMsg(<<"hi">>),
         AssistantCalls(<< ToolCall(CallIds[1], CallKinds[1]),
                           ToolCall(CallIds[2], CallKinds[4]) >>) >>,
      << UserMsg(<<"hi">>), FunctionMsg("read_file", <<"file text">>) >> }

NoResponse == [usage |-> NoUsage, content |-> PyNone, tool_calls |-> <<>>]

NoRequest ==
    [messages |-> <<>>, tools |-> {},
     tool_choice |-> [type |-> "None", function |-> ""]]

----------------------------------------------------------------------------
(* The session: calls of send_message by the caller *)

PureIdle ==
    /\ arg = <<>> /\ out = <<>> /\ op = "none"
    /\ arg_after = <<>> /\ received = <<>>

Init ==
    /\ pc = "idle"
    /\ orig \in InitTranscripts
    /\ messages = orig
    /\ aliased = TRUE
    /\ message = UserMsg(<<>>)
    /\ function_call = FcAuto
    /\ retries = 0
    /\ clarification_asked = 0
    /\ outline_created = FALSE
    /\ create_outline = FALSE
    /\ cfg \in Configs
    /\ history = <<>>
    /\ request = NoRequest
    /\ requests = 0
    /\ adds = <<>>
    /\ response = NoResponse
    /\ pre = orig
    /\ raises = 0
    /\ dispatched = <<>>
    /\ attempts = <<>>
    /\ outline_prompts = 0
    /\ PureIdle

\* the list the caller holds: the returned one, or its own after a raise
CallerTranscript == IF pc = "returned" THEN messages ELSE orig

\* the caller's list with its dicts renumbered: 1 is the new `message`
CallerList(ms) == deepcopy(ms)

\* send_message(message, messages, conv_id=...) up to the first request
Call(content) ==
    /\ pc \in {"idle", "returned", "raised"}
    /\ Len(CallerTranscript) <= MaxTranscript
    /\ raises <= MaxRaises
    /\ LET t == CallerList(CallerTranscript) IN
        /\ message' = [UserMsg(content) EXCEPT !.obj = 1]
        /\ pre' = t
        /\ retries' = 0
        /\ adds' = <<>>
        /\ Attempt(t, t, TRUE, FcAuto, 0, <<>>, history, <<>>)
    /\ UNCHANGED <<cfg, response, pureVars>>

\* Pop that removes everything the call appended
PopTurn(ms) == SubSeq(ms, 1, Len(pre))

\* Pop that removes two elements
PopTwo(ms) == SubSeq(ms, 1, Len(ms) - 2)

\* line 237: messages.pop()
Pop(ms) == SubSeq(ms, 1, Len(ms) - 1)

\* client.chat.completions.create raises: lines 228-249, and the recursive
\* call up to its request
RequestFails ==
    /\ pc = "request"
    /\ IF retries >= RetryBudget
       THEN /\ pc' = "raised"
            /\ raises' = raises + 1
            /\ UNCHANGED <<orig, messages, aliased, message, function_call,
                           retries, clarification_asked, outline_created,
                           create_outline, history, request, requests,
                           dispatched, attempts, outline_prompts>>
       ELSE LET popped == Pop(messages) IN
            /\ message' = message
            /\ retries' = retries + 1
            /\ Attempt(popped, IF aliased THEN popped ELSE orig, aliased,
                       function_call, requests, dispatched, popped, attempts)
    /\ UNCHANGED <<cfg, adds, response, pre, pureVars>>

\* lines 204-219
ResponseMessage(resp) ==
    [role |-> "assistant",
     content |-> IF resp.content # PyNone THEN resp.content ELSE <<>>,
     name |-> "", tool_call_id |-> "", tool_calls |-> resp.tool_calls,
     obj |-> 0]

\* TotalTokens that counts the completion only
TotalTokensCompletionOnly(resp) ==
    IF resp.usage.present THEN resp.usage.completion_tokens ELSE 0

\* lines 184-186
TotalTokens(resp) ==
    (IF resp.usage.present THEN resp.usage.prompt_tokens ELSE 0)
    + (IF resp.usage.present THEN resp.usage.completion_tokens ELSE 0)

\* the request returns resp: lines 183-226 and 251-259
RequestSucceeds(resp) ==
    /\ pc = "request"
    /\ LET m4 == redact_always(messages)
           m5 == Append(m4, ResponseMessage(resp))
                    \o process_tool_calls(resp.tool_calls)
       IN  /\ adds' = Append(adds, TotalTokens(resp))
           /\ response' = resp
           /\ messages' = m5
           /\ aliased' = FALSE
           /\ history' = messages'
           /\ clarification_asked' =
                 clarification_asked + ClarificationsAsked(resp.tool_calls)
           /\ dispatched' = dispatched \o resp.tool_calls
           /\ pc' = "returned"
    /\ UNCHANGED <<orig, message, function_call, retries, outline_created,
                   create_outline, cfg, request, requests, pre, raises,
                   attempts, outline_prompts, pureVars>>

Next ==
    \/ \E content \in UserContents : Call(content)
    \/ RequestFails
    \/ \E resp \in Responses : RequestSucceeds(resp)

Spec == Init /\ [][Next]_vars
----------------------------------------------------------------------------
(* The redaction passes applied to transcripts of up to MaxLen messages *)

\* a user message dict that a list holds more than once, as the list of a
\* retried outline turn does (lines 237 and 120)
SharedUserMsg == [UserMsg(<<"APPEND_OK">>) EXCEPT !.obj = 2]

\* messages of every role the passes test, with contents that are plain,
\* empty, None, a sentinel or already a placeholder
RedactInputs ==
    { UserMsg(<<"hi">>), UserMsg(<<"APPEND_OK">>),
      Msg("assistant", <<"I will">>), Msg("assistant", <<>>),
      Msg("assistant", PyNone), Msg("assistant", MessageRedacted),
      FunctionMsg("read_file", <<"file text">>),
      FunctionMsg("read_file", FileContentsRedacted),
      ToolMsg(CallIds[1], "read_file", <<"file text">>),
      SharedUserMsg }

\* the lists of up to n of these messages; a list holds the shared dict
\* twice or more, or not at all
TranscriptsUpTo(n) ==
    { t \in UNION { [1..k -> RedactInputs] : k \in 0..n } : deepcopy(t) = t }

\* no call of send_message is in progress
TurnOff ==
    /\ pc = "off"
    /\ orig = <<>>
    /\ messages = <<>>
    /\ aliased = TRUE
    /\ message = UserMsg(<<>>)
    /\ function_call = FcAuto
    /\ retries = 0
    /\ clarification_asked = 0
    /\ outline_created = FALSE
    /\ create_outline = FALSE
    /\ cfg \in { c \in Configs : /\ c.no_questions /\ c.no_outline
                                 /\ ~c.active_tasklist
                                 /\ ~c.task_operation_performed }
    /\ history = <<>>
    /\ request = NoRequest
    /\ requests = 0
    /\ adds = <<>>
    /\ response = NoResponse
    /\ pre = <<>>
    /\ raises = 0
    /\ dispatched = <<>>
    /\ attempts = <<>>
    /\ outline_prompts = 0

InitRedact ==
    /\ TurnOff
    /\ arg \in TranscriptsUpTo(MaxLen)
    /\ out = arg
    /\ op = "none"
    /\ arg_after = arg
    /\ received = <<>>

\* out = redact_messages(arg)
ApplyRedactMessages ==
    /\ op = "none"
    /\ out' = redact_messages(arg)
    /\ op' = "redact_messages"
    /\ arg_after' = ArgumentAfter(arg, out')
    /\ UNCHANGED <<arg, received, turnVars>>

\* out = redact_messages(redact_messages(arg)); the second call is given
\* the result of the first, not arg
ApplyRedactMessagesAgain ==
    /\ op = "redact_messages"
    /\ out' = redact_messages(out)
    /\ op' = "redact_messages twice"
    /\ UNCHANGED <<arg, arg_after, received, turnVars>>

\* out = redact_always(arg)
ApplyRedactAlways ==
    /\ op = "none"
    /\ out' = redact_always(arg)
    /\ op' = "redact_always"
    /\ arg_after' = ArgumentAfter(arg, out')
    /\ UNCHANGED <<arg, received, turnVars>>

NextRedact ==
    \/ ApplyRedactMessages
    \/ ApplyRedactMessagesAgain
    \/ ApplyRedactAlways

SpecRedact == InitRedact /\ [][NextRedact]_vars

----------------------------------------------------------------------------
(* process_tool_calls applied to batches of up to MaxCalls calls *)

\* every kind of call, a read_file that succeeds, and make_tasklist with
\* and without a list of tasks
DispatchKinds ==
    { CallKinds[k] : k \in 1..Len(CallKinds) }
    \cup { [name |-> "read_file", arguments |-> ArgsGood] }
    \cup { [name |-> "make_tasklist", arguments |-> a] :
             a \in {ArgsGood, ArgsTasksMixed, ArgsTasksNotes, ArgsTasksNotList} }

DispatchInputs ==
    UNION { [1..n -> { ToolCall(CallIds[i], kind) :
                         i \in 1..MaxCalls, kind \in DispatchKinds }] :
            n \in 0..MaxCalls }

InitDispatch ==
    /\ TurnOff
    /\ arg \in DispatchInputs
    /\ out = <<>>
    /\ op = "none"
    /\ arg_after = arg
    /\ received = <<>>

\* out = process_tool_calls(arg)
ApplyProcessToolCalls ==
    /\ op = "none"
    /\ out' = process_tool_calls(arg)
    /\ op' = "process_tool_calls"
    /\ received' = Received(arg)
    /\ UNCHANGED <<arg, arg_after, turnVars>>

NextDispatch == ApplyProcessToolCalls

SpecDispatch == InitDispatch /\ [][NextDispatch]_vars
----------------------------------------------------------------------------
(* Properties *)

Last(ms) == ms[Len(ms)]

\* the call made every request it could and each one failed
AllRequestsFailed == pc = "raised" /\ requests = RetryBudget + 1

\* C1: when all retry budget + 1 = 5 requests of a call fail, send_message
\* raises and the caller's transcript is as long as it was before the call.
C1_FullRollback == AllRequestsFailed => Len(orig) = Len(pre)

\* every assistant message with N tool calls is followed at once by exactly
\* N tool messages that answer the calls in order
Paired(ms) ==
    \A i \in 1..Len(ms) :
        HasToolCalls(ms[i]) =>
            LET n == Len(ms[i].tool_calls) IN
            /\ i + n <= Len(ms)
            /\ \A k \in 1..n :
                  /\ ms[i + k].role = "tool"
                  /\ ms[i + k].tool_call_id = ms[i].tool_calls[k].id
            /\ i + n + 1 <= Len(ms) => ms[i + n + 1].role # "tool"

\* C2: whenever send_message returns, the returned transcript does not end in
\* an assistant message with tool calls, and every assistant message with N
\* tool calls is followed at once by exactly N tool messages with the calls'
\* ids in order.
C2_PairingOnReturn ==
    pc = "returned" =>
        /\ messages # <<>>
        /\ ~HasToolCalls(Last(messages))
        /\ Paired(messages)

\* a call that started from unanswered tool calls, was retried, and got a
\* response whose first tool call faults
C2_Witness ==
    /\ pc = "returned"
    /\ pre # <<>> /\ HasToolCalls(Last(pre))
    /\ retries >= 1
    /\ Len(response.tool_calls) >= 2
    /\ Faults(response.tool_calls[1])

\* C3: process_tool_calls answers a batch of N calls with N tool messages,
\* the i-th with the id and the function name of the i-th call, whichever
\* calls fault.
C3_OneResponsePerCall ==
    op = "process_tool_calls" =>
        /\ Len(out) = Len(arg)
        /\ \A i \in 1..Len(arg) :
              /\ out[i].role = "tool"
              /\ out[i].tool_call_id = arg[i].id
              /\ out[i].name = arg[i].name

\* a dispatched batch whose first call faults and whose last does not
C3_Witness ==
    /\ op = "process_tool_calls"
    /\ Len(arg) >= 2
    /\ Faults(arg[1])
    /\ ~Faults(arg[Len(arg)])
    /\ Len(out) = Len(arg)
\* C4: once ask_clarification has been dispatched threshold times, the
\* request of the next turn neither offers nor forces it.
C4_ClarificationWithdrawn ==
    (pc = "request" /\ clarification_asked = cfg.initial_question_count) =>
        /\ ask_clarification_func \notin request.tools
        /\ request.tool_choice.function # ask_clarification_func

NumRedactable(ms) == Cardinality({i \in 1..Len(ms) : Redactable(ms[i])})

\* C5 as stated: redact_messages applied twice gives what it gives applied
\* once, for every transcript.
C5_Idempotent ==
    op = "redact_messages twice" => out = redact_messages(arg)

\* C5: redact_messages applied twice gives what it gives applied once, for
\* every transcript with at most one message that it can replace.
C5_IdempotentOnOneMatch ==
    (op = "redact_messages twice" /\ NumRedactable(arg) <= 1) =>
        out = redact_messages(arg)

\* the one replaceable message was replaced, and the second pass ran
C5_Witness ==
    /\ op = "redact_messages twice"
    /\ NumRedactable(arg) = 1
    /\ out # arg
    /\ NumRedactable(out) = 0

\* C6: a call whose message has no partial-output sentinel returns a
\* transcript in which every message that was there before the call has the
\* content it had.
C6_PriorContentKept ==
    (pc = "returned" /\ ~PartialOutput(message)) =>
        /\ Len(messages) >= Len(pre)
        /\ \A i \in 1..Len(pre) : messages[i].content = pre[i].content

\* position of the call's user message in the list ms (0: not in it)
TurnIndex(ms) ==
    LET S == {i \in 1..Len(ms) :
                ms[i].role = "user" /\ ms[i].content = message.content}
    IN  IF S = {} THEN 0 ELSE CHOOSE i \in S : \A j \in S : j <= i

\* the message before the call's user message in the submitted list
Preceding == request.messages[TurnIndex(request.messages) - 1]

PartialRequest ==
    pc = "request" /\ PartialOutput(message) /\ TurnIndex(request.messages) >= 2

\* C7 as stated: in the list submitted for a message with the partial-output
\* sentinel, the message before it has the file-content placeholder as its
\* content, whatever its role.
C7_PrecedingIsFilePlaceholder ==
    (pc = "request" /\ PartialOutput(message)) =>
        /\ TurnIndex(request.messages) >= 2
        /\ Preceding.content = FileContentRedacted

\* C7: in the list submitted for a message with the partial-output sentinel,
\* the message before it has the file-content placeholder as its content,
\* or, when it is an assistant message or a function-role read_file message,
\* the placeholder that redact_messages puts there.
C7_PrecedingIsPlaceholder ==
    (pc = "request" /\ PartialOutput(message)) =>
        /\ TurnIndex(request.messages) >= 2
        /\ \/ Preceding.content = FileContentRedacted
           \/ /\ Preceding.role = "assistant"
              /\ Preceding.content = MessageRedacted
           \/ /\ Preceding.role = "function" /\ Preceding.name = "read_file"
              /\ Preceding.content = FileContentsRedacted

\* a tool response before the message was marked in the submitted list
C7_Witness ==
    /\ PartialRequest
    /\ Preceding.role = "tool"
    /\ Preceding.content = FileContentRedacted
    /\ pre # <<>> /\ Last(pre).content # FileContentRedacted

\* C8: a call issues at most 5 requests, returns as soon as one succeeds and
\* raises only when the fifth request in a row has failed.
C8_RaisesOnlyAfterBudget ==
    /\ requests <= RetryBudget + 1
    /\ pc = "returned" => requests = Len(adds) + retries /\ Len(adds) = 1
    /\ pc = "raised" => requests = RetryBudget + 1

Answers == SubSeq(messages, Len(messages) - Len(response.tool_calls) + 1,
                  Len(messages))

\* C10: a tool call that faults is answered by a tool message whose content
\* starts with "Error: ", the other calls of the batch are answered too, and
\* the call returns without a further request.
C10_FaultsAreAnswered ==
    pc = "returned" =>
        /\ requests = retries + 1
        /\ Len(messages) > Len(response.tool_calls)
        /\ \A i \in 1..Len(response.tool_calls) :
              /\ Answers[i].role = "tool"
              /\ Answers[i].tool_call_id = response.tool_calls[i].id
              /\ Faults(response.tool_calls[i]) =>
                    StartsWith(Answers[i].content, ErrorPrefix)

\* the first call of the response faulted, a later one did not
C10_Witness ==
    /\ pc = "returned"
    /\ Len(response.tool_calls) >= 2
    /\ Faults(response.tool_calls[1])
    /\ ~Faults(Last(response.tool_calls))
    /\ StartsWith(Answers[1].content, ErrorPrefix)
    /\ ~StartsWith(Last(Answers).content, ErrorPrefix)

\* the last request of the current call
LastAttempt == attempts[Len(attempts)]

\* the forced invocation of the clarification tool
ForcedChoice == [type |-> "function", function |-> ask_clarification_func]

\* C11: whenever a request is built while questions are enabled and the
\* clarification count is below the threshold, it offers only the
\* clarification tool and forces it, no outline prompt is in the submitted
\* list, and building it neither changes the outline flag nor appends an
\* outline prompt, whatever the task-list flags are.
C11_ClarificationFirst ==
    /\ []((pc = "request" /\ ClarifyRule(cfg, clarification_asked)) =>
            /\ request.tools = {ask_clarification_func}
            /\ request.tool_choice = ForcedChoice
            /\ Synthetic(request.messages) = 0)
    /\ [][(pc' = "request" /\ ClarifyRule(cfg, clarification_asked')) =>
            /\ outline_created' = outline_created
            /\ create_outline' = create_outline
            /\ outline_prompts' = outline_prompts]_vars

\* a retried clarification request with the outline enabled and a task list
\* active on which no task operation was performed
C11_Witness ==
    /\ pc = "request"
    /\ ClarifyRule(cfg, clarification_asked)
    /\ retries >= 1
    /\ ~cfg.no_outline /\ ~outline_created
    /\ cfg.active_tasklist /\ ~cfg.task_operation_performed
    /\ request.tool_choice = ForcedChoice

\* the request in flight was built by the outline branch
Outlining == pc = "request" /\ LastAttempt.rule = 2

\* C12: the request of the outlining turn offers no tool definitions and
\* has no forced call.
C12_OutlineOffersNothing ==
    Outlining =>
        /\ request.tools = {}
        /\ request.tool_choice.type = "None"

\* C13: in a session the outline branch is taken at most once: the outline
\* flag never goes from true to false, the branch is taken only while the
\* flag is false and sets it, and at most one outline prompt is appended.
C13_OutlineOnce ==
    /\ [](outline_prompts <= 1)
    /\ [](Synthetic(messages) <= 1 /\ Synthetic(orig) <= 1)
    /\ [][outline_created => outline_created']_vars
    /\ [][(pc' = "request" /\ attempts'[Len(attempts')].rule = 2) =>
            ~outline_created /\ outline_created']_vars

\* a turn whose first request was the outline request and whose retry was
\* not one
C13_Witness ==
    /\ pc = "request"
    /\ Len(attempts) >= 2
    /\ attempts[1].rule = 2
    /\ LastAttempt.rule = 3
    /\ outline_created
    /\ outline_prompts = 1

\* the content of the history file for the list ms
Plain(ms) == [i \in 1..Len(ms) |-> [ms[i] EXCEPT !.obj = 0]]

\* C14: when send_message returns, or raises after its last retry, the
\* history file holds the transcript the caller holds; and the file written
\* before a request holds the turn's user message.
C14_WriteThrough ==
    /\ (pc = "returned" \/ AllRequestsFailed) =>
          Plain(history) = Plain(CallerTranscript)
    /\ pc = "request" =>
          \E i \in 1..Len(history) :
              history[i].role = "user" /\ history[i].content = message.content

\* length of the transcript when the user message is first appended
TurnStart == Len(pre) + Len(PendingCalls(pre))

\* the user messages, other than the outline prompt, that ms holds after
\* the transcript of before the turn and the answers to its pending calls
TurnMessages(ms) ==
    Cardinality({i \in (TurnStart + 1)..Len(ms) :
                    ms[i].role = "user" /\ ms[i].content # OutlinePrompt})

\* C15: every attempt, the first and the retried ones, appends the user
\* message to the transcript of before the turn, so the submitted and the
\* returned transcript hold the turn's user message exactly once.
C15_RetryStartsClean ==
    pc \in {"request", "returned"} => TurnMessages(messages) = 1

\* C16: a retried request carries the tools, the tool choice and the number
\* of outline prompts of the failed request before it, and the retry of an
\* outline request is an outline request.
C16_RetryKeepsRule ==
    \A k \in 2..Len(attempts) :
        /\ attempts[k].tools = attempts[k - 1].tools
        /\ attempts[k].tool_choice = attempts[k - 1].tool_choice
        /\ attempts[k].synthetic = attempts[k - 1].synthetic
        /\ attempts[k - 1].rule = 2 => attempts[k].rule = 2

\* the request in flight was built by neither the clarification nor the
\* outline branch
RuleThree == pc = "request" /\ LastAttempt.rule = 3

\* C17: when neither branch is taken the request offers all definitions
\* but make_tasklist and project_finished if a list is active, and but
\* task_finished if no list is active or no task operation was performed.
C17_TaskListTools ==
    RuleThree =>
        /\ request.tools =
              (AllDefinitions
                 \ (IF cfg.active_tasklist
                    THEN {"make_tasklist", "project_finished"} ELSE {}))
                 \ (IF ~cfg.active_tasklist \/ ~cfg.task_operation_performed
                    THEN {"task_finished"} ELSE {})
        /\ "task_finished" \in request.tools <=>
              (cfg.active_tasklist /\ cfg.task_operation_performed)
        /\ cfg.active_tasklist => "make_tasklist" \notin request.tools

\* a list is active, no task operation was performed, and task_finished is
\* withheld
C17_Witness ==
    /\ RuleThree
    /\ cfg.active_tasklist /\ ~cfg.task_operation_performed
    /\ request.tools = {"read_file", "write_file"}

\* C18: every request built by neither branch has tool choice "auto", the
\* caller having passed the default function_call.
C18_AutoInRuleThree ==
    RuleThree => request.tool_choice.type = "auto"

\* the list that holds the turn: the caller's after a raise, else the local
TurnList == IF pc = "raised" THEN orig ELSE messages

\* C19: the tool calls left unanswered at the end of the transcript passed
\* to send_message are answered before the user message, and are dispatched
\* once in the whole call, however many attempts fail.
C19_PendingDispatchedOnce ==
    pc \in {"request", "returned", "raised"} =>
        LET p == PendingCalls(pre) IN
        /\ Len(TurnList) > Len(pre) + Len(p)
        /\ \A k \in 1..Len(p) :
              /\ TurnList[Len(pre) + k].role = "tool"
              /\ TurnList[Len(pre) + k].tool_call_id = p[k].id
        /\ TurnList[Len(pre) + Len(p) + 1].role = "user"
        /\ dispatched =
              p \o (IF pc = "returned" THEN response.tool_calls ELSE <<>>)

\* a call that started from unanswered calls and raised after its last retry
C19_Witness ==
    /\ AllRequestsFailed
    /\ Len(PendingCalls(pre)) = 2
    /\ dispatched = PendingCalls(pre)
    /\ TurnList[Len(pre) + 1].role = "tool"

\* a read_file result, in the form process_tool_calls gives it (role tool)
\* or in the older one (role function)
IsFileResponse(msg) ==
    msg.role \in {"tool", "function"} /\ msg.name = "read_file"

SensitiveAssistant(msg) ==
    msg.role = "assistant" /\ msg.content \notin {<<>>, PyNone, MessageRedacted}

SensitiveFile(msg) ==
    IsFileResponse(msg) /\ msg.content \notin {PyNone, FileContentsRedacted}

\* C20: for a transcript with an assistant message of non-empty,
\* non-placeholder content and a read_file result of non-placeholder
\* content, redact_messages replaces the first such assistant message and
\* the first such read_file result; it replaces no assistant message of
\* empty content.
C20_TwoScans ==
    op = "redact_messages" =>
        LET A == {i \in 1..Len(arg) : SensitiveAssistant(arg[i])}
            F == {i \in 1..Len(arg) : SensitiveFile(arg[i])}
        IN  /\ Len(out) = Len(arg)
            /\ (A # {} /\ F # {}) =>
                  /\ out[FirstOf(A)].content = MessageRedacted
                  /\ out[FirstOf(F)].content = FileContentsRedacted
            /\ \A i \in 1..Len(arg) :
                  (arg[i].role = "assistant" /\ arg[i].content = <<>>) =>
                      out[i].content = <<>>

\* C21 as stated: redact_always replaces the content of the first user
\* message that contains APPEND_OK, and every other message of the result
\* is the message of the argument.
C21_OnlyFirstReplaced ==
    op = "redact_always" =>
        LET f == FirstMatch({i \in 1..Len(arg) : AppendOk(arg[i])}) IN
        /\ Len(out) = Len(arg)
        /\ f # 0 => out[f].content = FileAppended
        /\ \A i \in 1..Len(arg) : i # f => Plain(out)[i] = Plain(arg)[i]

SameBut(a, b) ==
    /\ a.role = b.role
    /\ a.name = b.name
    /\ a.tool_call_id = b.tool_call_id
    /\ a.tool_calls = b.tool_calls

\* ms holds at its first positions the messages of before the call
KeepsPrior(ms) ==
    /\ Len(ms) >= Len(pre)
    /\ \A i \in 1..Len(pre) : SameBut(ms[i], pre[i])

\* C23: while a call runs and after it returned or raised, the local list
\* and the caller's list hold every message of before the call at its
\* position with its role; and the list of a request in flight is longer
\* than the transcript of before the turn, so the pop of the retry path
\* removes a message that the call appended.
C23_AppendOnly ==
    pc \in {"request", "returned", "raised"} =>
        /\ KeepsPrior(messages)
        /\ KeepsPrior(orig)
        /\ pc = "request" => Len(messages) > TurnStart

\* a call on a transcript of two messages or more that returned after four
\* failed attempts
C23_Witness ==
    /\ pc = "returned"
    /\ retries = RetryBudget
    /\ Len(pre) >= 2
    /\ KeepsPrior(messages)
    /\ Len(messages) > Len(pre) + 1

\* the arguments of call i have a key tasks that is a list
HasTaskList(call) ==
    LET parsed == JsonLoads(call.arguments) IN
    /\ call.name = "make_tasklist"
    /\ parsed.ok
    /\ "tasks" \in DOMAIN parsed.value
    /\ parsed.value.tasks.type = "list"

\* the entries of tasks that are dicts, in order
DictEntries(tasks) == SelectSeq(tasks, LAMBDA t : t.type = "dict")

\* C24: when the arguments of a make_tasklist call have a list as tasks,
\* the tool is invoked with the dicts of that list in order, each as a dict
\* of file_involved (NO_FILE if absent) and task_description (the empty
\* string if absent); the other entries are dropped and the answer is not
\* an error.
C24_TasksNormalised ==
    op = "process_tool_calls" =>
        \A i \in 1..Len(arg) :
            HasTaskList(arg[i]) =>
                LET given == DictEntries(JsonLoads(arg[i].arguments).value.tasks.value)
                    got == received[i].args.tasks
                IN  /\ received[i].invoked
                    /\ got.type = "list"
                    /\ Len(got.value) = Len(given)
                    /\ \A k \in 1..Len(given) :
                          /\ got.value[k].type = "dict"
                          /\ DOMAIN got.value[k].value =
                                {"file_involved", "task_description"}
                          /\ got.value[k].value.file_involved =
                                Get(given[k].value, "file_involved", JStr("NO_FILE"))
                          /\ got.value[k].value.task_description =
                                Get(given[k].value, "task_description", JStr(""))
                    /\ ~StartsWith(out[i].content, ErrorPrefix)

\* a list of five entries, two of them no dicts, was passed on as three
C24_Witness ==
    /\ op = "process_tool_calls"
    /\ \E i \in 1..Len(arg) :
          /\ arg[i].arguments = ArgsTasksMixed
          /\ HasTaskList(arg[i])
          /\ Len(received[i].args.tasks.value) = 3
          /\ received[i].args.tasks.value[3].value.file_involved = JStr("NO_FILE")
          /\ ~StartsWith(out[i].content, ErrorPrefix)

\* the message of the call holds the partial-output sentinel
HasSentinel == Contains(message.content, "No END_OF_FILE_CONTENT")

\* C25: a call on the empty transcript with a message that holds the
\* partial-output sentinel raises with no request issued, no retry made, no
\* token counted and no history written, and the caller's list holds the
\* user message.
C25_RaisesBeforeRequest ==
    (pc \in {"request", "returned", "raised"} /\ pre = <<>> /\ HasSentinel) =>
        /\ pc = "raised"
        /\ requests = 0
        /\ attempts = <<>>
        /\ retries = 0
        /\ adds = <<>>
        /\ history = <<>>
        /\ Plain(orig) = Plain(<<message>>)

\* the call raised on the empty transcript
C25_Witness ==
    /\ pc = "raised"
    /\ pre = <<>>
    /\ HasSentinel
    /\ requests = 0
    /\ Len(orig) = 1

====
